---- MODULE Spec2Model ----
(***************************************************************************)
(* State-machine model of the AI-trader front end (React / TypeScript).    *)
(*                                                                         *)
(*   SpecWS      useWebSocket as it is used by useTradingWebSocket         *)
(*   SpecWSFair  the same hook in front of a server that never accepts,    *)
(*               with the fairness of the browser's event loop             *)
(*   SpecApp     App, OnboardingPage and OnboardingChat                    *)
(*   SpecDash    TradingDashboard: search, analyzeStock                    *)
(*   SpecSA      StockAnalysis: quantity, validation, execute              *)
(*   SpecSM      SymbolManager and the trading engine                      *)
(*   SpecPf      the portfolio of the back end and PortfolioOverview       *)
(*   SpecAx      the response interceptor of the axios instance            *)
(*   SpecMsg     useTradingWebSocket.handleMessage                         *)
(*                                                                         *)
(* React state is modelled as the latest value of each useState cell; a    *)
(* closure created by a render sees the values of that render, so every    *)
(* value a callback reads from its closure is stored with the callback     *)
(* (field rc of a socket, renderedRc for the last committed render).       *)
(***************************************************************************)
EXTENDS Integers, Sequences, FiniteSets, TLC

VARIABLES
    \* ---- useWebSocket (hooks/useWebSocket.ts) ----
    isConnected,          \* useState(false)
    connectionState,      \* useState('disconnected')
    reconnectCount,       \* useState(0), latest value
    wsRef,                \* useRef: slot of the current WebSocket, 0 = null
    reconnectTimeoutRef,  \* useRef: slot whose reconnect timeout is referenced, 0 = none pending
    sock,                 \* the WebSocket objects created by connect()
    mountTimerPending,    \* the 3 s timeout of the auto-connect effect
    renderedRc,           \* reconnectCount seen by the connect of the last committed render
    dirty,                \* a state cell changed since the last render
    mounted,              \* the component using the hook is mounted
    opened,               \* history: number of WebSockets created (saturates at MaxOpened)
    afterDisconnect,      \* history: disconnect() ran and connect() has not been called since
    pingInterval,         \* the 30 s interval of the ping effect is set
    lastSend,             \* history: the call of sendMessage the last step made, NoSend if none
    onOpenCalls,          \* history: what the last onopen did after its state updates, in order
    \* ---- App and OnboardingPage ----
    appIsLoading,         \* App: useState(true)
    showOnboarding,       \* App: useState(true)
    appCheck,             \* App.checkOnboardingStatus: "pending", or how getPreferences ended
    serverPrefs,          \* the back end holds stored preferences
    opIsLoading,          \* OnboardingPage: useState(true)
    opShowChat,           \* OnboardingPage: useState(false)
    opExisting,           \* OnboardingPage: existingPreferences is not null
    opCheckPending,       \* checkExistingPreferences of the mounted page is in flight
    chatExtracted,        \* OnboardingChat: extractedPreferences is not null
    savesInFlight,        \* savePreferences requests of the mounted chat in flight
    orphanSaves,          \* savePreferences requests in flight whose chat was unmounted
    completeTimers,       \* pending 2 s timeouts of handleOnboardingComplete
    onCompleteCalled,     \* history: onComplete of App was called
    shownAgain,           \* history: handleShowOnboarding was called
    \* ---- TradingDashboard and StockAnalysis ----
    loading,              \* TradingDashboard: useState(false)
    error,                \* TradingDashboard: "null" or which handler set the banner
    searchSymbol,         \* TradingDashboard: the trimmed text of the search box
    searchMode,           \* TradingDashboard: 'symbol' | 'company'
    currentAnalysis,      \* TradingDashboard: the decision shown, NoAnalysis = null
    initialLoad,          \* loadInitialData of the mount effect is in flight
    calls,                \* the invocations of analyzeStock that are awaiting a response
    customQuantity,       \* StockAnalysis: useState(decision.quantity)
    validation,           \* StockAnalysis: the stored TradeValidationResponse, NoValidation = null
    validationLoading,    \* StockAnalysis: useState(false)
    validationError,      \* StockAnalysis: validationError is not null
    validateReqs,         \* validateTrade requests of the mounted StockAnalysis in flight
    latestOutcome,        \* history: how the validateTrade request issued last has ended so far
    execPending,          \* executeTrade requests in flight
    execAfter,            \* history: latestOutcome when the last execute request was issued
    lastOrder,            \* history: the order handleExecuteTrade submitted last, NoOrder if none
    rejectEnd,            \* history: the state left by the last analyzeStock that rejected its input
    \* ---- SymbolManager and the trading engine ----
    symbols,              \* SymbolManager: useState([]), as a set
    newSymbol,            \* SymbolManager: the text of the symbol field
    smLoading,            \* SymbolManager: loading
    smError,              \* SymbolManager: error is not null
    smSuccess,            \* SymbolManager: success is not null
    isEngineRunning,      \* SymbolManager: useState(false)
    serverSymbols,        \* the symbols the back end monitors
    engineRunning,        \* the back end's engine is running
    smLoadPending,        \* loadSymbols of the mount effect is in flight
    smStatusPending,      \* checkEngineStatus of the mount effect is in flight
    smOp,                 \* the addSymbol / removeSymbol / updateAllSymbols awaiting a response
    lastAdd,              \* history: how the last addSymbol went
    modWhileRunning,      \* history: a modifying request went out while the engine was running
    \* ---- the portfolio ----
    cash_balance,         \* back end: cash of the portfolio
    holdings,             \* back end: shares held of each stock
    prices,               \* the market: current price of each stock
    portfolio,            \* front end: the Portfolio fetched last
    lastTrade,            \* history: the last trade the back end was asked to execute
    \* ---- the axios response interceptor ----
    axError,              \* the AxiosError of the request that failed last
    axThrown,             \* the message of the Error the interceptor threw for it
    \* ---- useTradingWebSocket (handleMessage) ----
    aiDecisions,          \* useState([]): entries by number of arrival, newest first
    tradeExecutions,      \* useState([])
    engineStatus,         \* useState(null): "null" or the status received last
    portfolioUpdates,     \* a portfolio update was received (portfolioUpdates is not null)
    decisionsReceived,    \* history: new_decision messages received (capped at MaxMessages)
    tradesReceived        \* history: trade_executed messages received (capped at MaxMessages)

appVars == <<appIsLoading, showOnboarding, appCheck, serverPrefs, opIsLoading, opShowChat,
             opExisting, opCheckPending, chatExtracted, savesInFlight, orphanSaves,
             completeTimers, onCompleteCalled, shownAgain>>

wsVars == <<isConnected, connectionState, reconnectCount, wsRef, reconnectTimeoutRef,
            sock, mountTimerPending, renderedRc, dirty, mounted, opened,
            afterDisconnect, pingInterval>>

sendVars == <<lastSend, onOpenCalls>>

dashVars == <<loading, error, searchSymbol, searchMode, currentAnalysis, initialLoad, calls,
              customQuantity, validation, validationLoading, validationError, validateReqs,
              latestOutcome, execPending, execAfter, lastOrder, rejectEnd>>

smVars == <<symbols, newSymbol, smLoading, smError, smSuccess, isEngineRunning, serverSymbols,
            engineRunning, smLoadPending, smStatusPending, smOp, lastAdd, modWhileRunning>>

pfVars == <<cash_balance, holdings, prices, portfolio, lastTrade>>

axVars == <<axError, axThrown>>

msgVars == <<aiDecisions, tradeExecutions, engineStatus, portfolioUpdates, decisionsReceived,
             tradesReceived>>

nonWsVars == <<appVars, dashVars, smVars, pfVars, axVars, msgVars>>

nonAppVars == <<wsVars, dashVars, smVars, pfVars, axVars, msgVars, sendVars>>

nonDashVars == <<wsVars, appVars, smVars, pfVars, axVars, msgVars, sendVars>>

nonSmVars == <<wsVars, appVars, dashVars, pfVars, axVars, msgVars, sendVars>>

nonPfVars == <<wsVars, appVars, dashVars, smVars, axVars, msgVars, sendVars>>

nonAxVars == <<wsVars, appVars, dashVars, smVars, pfVars, msgVars, sendVars>>

nonMsgVars == <<wsVars, appVars, dashVars, smVars, pfVars, axVars, sendVars>>

nonSendVars == <<wsVars, appVars, dashVars, smVars, pfVars, axVars, msgVars>>

vars == <<wsVars, appVars, dashVars, smVars, pfVars, axVars, msgVars, sendVars>>

(***************************************************************************)
(* Bounds                                                                  *)
(***************************************************************************)
MaxSockets == 2     \* WebSocket objects that exist at the same time
MaxOpened == 5      \* the history counter opened saturates here
MaxCount == 4       \* reconnectCount saturates here (above maxReconnectAttempts)
MaxTimers == 2      \* pending 2 s timeouts of handleOnboardingComplete
MaxCalls == 2       \* invocations of analyzeStock awaiting a response at the same time
MaxQuantity == 2    \* quantities 0..MaxQuantity can be typed into the quantity field
MaxPending == 2     \* validateTrade requests in flight at the same time
MaxExec == 1        \* executeTrade requests in flight at the same time
MaxPrice == 2       \* a stock costs 1..MaxPrice
MaxShares == 2      \* shares of one stock in an order and in the portfolio
MaxCash == 8        \* no sell is modelled that would lift the cash above this
InitialCash == 6    \* the cash the portfolio starts with
MaxMessages == 12   \* messages of one topic that are received

(***************************************************************************)
(* Program constants                                                       *)
(***************************************************************************)
maxReconnectAttempts == 3
NORMAL_CLOSURE == 1000
NO_STATUS_RCVD == 1005
ABNORMAL_CLOSURE == 1006

CloseCodes == {NORMAL_CLOSURE, NO_STATUS_RCVD, ABNORMAL_CLOSURE}
Slots == 1..MaxSockets
Topics == {"ai_decisions", "trades", "engine_status", "portfolio"}

Min(a, b) == IF a < b THEN a ELSE b

(***************************************************************************)
(* WebSocket objects.  st is readyState ("NONE": the slot holds no object),*)
(* est says the connection was established, rc is the reconnectCount seen  *)
(* by the handlers installed on the socket, tm the reconnect timeout its   *)
(* onclose scheduled, subs the subscribe messages sent on it.              *)
(***************************************************************************)
NoSocket == [st |-> "NONE", est |-> FALSE, rc |-> 0, tm |-> "none", subs |-> 0]

IsLive(r) == r.st \in {"OPEN", "CONNECTING"}

\* A slot can be taken by new WebSocket(...) when its object is gone or closed
\* and no timeout of its onclose is pending.
FreeSlot(f, s) == f[s].st \in {"NONE", "CLOSED"} /\ f[s].tm = "none"

HasFreeSlot(f) == \E s \in Slots : FreeSlot(f, s)

NewSlot(f) == CHOOSE s \in Slots : FreeSlot(f, s) /\ \A t \in Slots : FreeSlot(f, t) => s <= t

\* Closed sockets that nothing refers to any more are garbage.
Collect(f, ref) ==
    [s \in Slots |-> IF f[s].st = "CLOSED" /\ f[s].tm = "none" /\ s # ref
                     THEN NoSocket ELSE f[s]]

\* WebSocket.close(): a live socket starts closing, anything else is left alone.
CloseSocket(r) == IF IsLive(r) THEN [r EXCEPT !.st = "CLOSING"] ELSE r

\* sendMessage: transmits on wsRef.current only when its readyState is OPEN (faulty
\* variant: whenever there is a socket).
CanSend_AnySocket(f, ref) ==
    ref # 0

CanSend(f, ref) ==
    ref # 0 /\ f[ref].st = "OPEN"

\* readyState of wsRef.current, "NULL" when there is no socket.
ReadyState(f, ref) == IF ref = 0 THEN "NULL" ELSE f[ref].st

NoSend == [via |-> "none", readyState |-> "NULL", sent |-> FALSE, returned |-> FALSE]

\* sendMessage called through via: what it found, whether it transmitted, what it returned.
SendMessage(via, f, ref) ==
    [via |-> via, readyState |-> ReadyState(f, ref), sent |-> CanSend(f, ref),
     returned |-> CanSend(f, ref)]

\* subscribe(topics) of onopen: one more subscribe message on wsRef.current when
\* sendMessage transmits (faulty variant: the message is never sent).
SendSubscribe_Never(f, ref) ==
    f

SendSubscribe(f, ref) ==
    IF CanSend(f, ref) THEN [f EXCEPT ![ref].subs = Min(@ + 1, 2)] ELSE f

\* onopen after its three state updates: subscribe(topics) as topics is not empty,
\* then onConnect?.().
OnOpenCalls(f, ref) ==
    (IF Topics # {} /\ CanSend(f, ref) THEN <<"subscribe">> ELSE <<>>) \o <<"onConnect">>

\* connect() returns at once when the current socket is OPEN or CONNECTING (faulty
\* variant: it never returns early).
ConnectReturnsEarly_Never(f, ref) ==
    FALSE

ConnectReturnsEarly(f, ref) ==
    ref # 0 /\ IsLive(f[ref])

(***************************************************************************)
(* connect(), called from a closure that saw reconnectCount = rc, on the   *)
(* socket table f (the caller's timer bookkeeping already applied).        *)
(***************************************************************************)
Connect(rc, f) ==
    /\ afterDisconnect' = FALSE
    /\ IF ConnectReturnsEarly(f, wsRef)
       THEN /\ sock' = f
            /\ UNCHANGED <<connectionState, wsRef, opened, dirty>>
       ELSE /\ HasFreeSlot(f)
            /\ LET n == NewSlot(f) IN
                 /\ sock' = Collect([f EXCEPT ![n] = [NoSocket EXCEPT !.st = "CONNECTING",
                                                                      !.rc = rc]], n)
                 /\ wsRef' = n
            /\ connectionState' = "connecting"
            /\ dirty' = (dirty \/ connectionState # "connecting")
            /\ opened' = Min(opened + 1, MaxOpened)
    /\ UNCHANGED <<isConnected, reconnectCount, renderedRc, mounted>>

\* disconnect(): the socket table after clearTimeout and close().
SockAfterDisconnect ==
    [s \in Slots |->
        LET a == IF s = reconnectTimeoutRef THEN [sock[s] EXCEPT !.tm = "none"] ELSE sock[s]
        IN  IF s = wsRef THEN CloseSocket(a) ELSE a]

\* disconnect() without the timers of the auto-connect effect.
Disconnect ==
    /\ sock' = Collect(SockAfterDisconnect, 0)
    /\ wsRef' = 0
    /\ reconnectTimeoutRef' = 0
    /\ isConnected' = FALSE
    /\ connectionState' = "disconnected"
    /\ reconnectCount' = 0
    /\ dirty' = (dirty \/ isConnected \/ connectionState # "disconnected" \/ reconnectCount # 0)
    /\ afterDisconnect' = TRUE

(***************************************************************************)
(* Actions of the hook                                                     *)
(***************************************************************************)

\* The 3 s timeout of the auto-connect effect fires: connect() of that render.
MountTimerFire ==
    /\ mountTimerPending
    /\ mountTimerPending' = FALSE
    /\ Connect(renderedRc, sock)
    /\ UNCHANGED <<reconnectTimeoutRef, pingInterval>>
    /\ lastSend' = NoSend
    /\ UNCHANGED onOpenCalls
    /\ UNCHANGED nonWsVars

\* The reconnect timeout scheduled by the onclose of socket s fires: the connect
\* of the closure that created s.
ReconnectTimerFire(s) ==
    /\ sock[s].tm = "pending"
    /\ reconnectTimeoutRef' = IF reconnectTimeoutRef = s THEN 0 ELSE reconnectTimeoutRef
    /\ Connect(sock[s].rc, [sock EXCEPT ![s].tm = "none"])
    /\ UNCHANGED <<mountTimerPending, pingInterval>>
    /\ lastSend' = NoSend
    /\ UNCHANGED onOpenCalls
    /\ UNCHANGED nonWsVars

\* A render commits.  topics is a fresh array in every render of
\* useTradingWebSocket, so connect is a new function in every render and the
\* auto-connect effect is torn down and set up again: its cleanup clears the
\* 3 s timeout and calls disconnect(), its body starts a new 3 s timeout.  The ping
\* effect of a render that saw isConnected = true holds the 30 s interval.
Commit ==
    /\ renderedRc' = reconnectCount
    /\ pingInterval' = isConnected
    /\ sock' = Collect(SockAfterDisconnect, 0)
    /\ wsRef' = 0
    /\ reconnectTimeoutRef' = 0
    /\ isConnected' = FALSE
    /\ connectionState' = "disconnected"
    /\ reconnectCount' = 0
    /\ dirty' = (isConnected \/ connectionState # "disconnected" \/ reconnectCount # 0)
    /\ afterDisconnect' = TRUE
    /\ mountTimerPending' = TRUE
    /\ UNCHANGED <<mounted, opened>>

\* The render React schedules after a state cell of the hook changed.
Render ==
    /\ mounted
    /\ dirty
    /\ Commit
    /\ lastSend' = NoSend
    /\ UNCHANGED onOpenCalls
    /\ UNCHANGED nonWsVars

\* A render caused by the host component (its own state or props changed).
HostRender ==
    /\ mounted
    /\ ~dirty
    /\ Commit
    /\ lastSend' = NoSend
    /\ UNCHANGED onOpenCalls
    /\ UNCHANGED nonWsVars

\* The component unmounts: the effect's cleanup runs and nothing renders again.
Unmount ==
    /\ mounted
    /\ mounted' = FALSE
    /\ mountTimerPending' = FALSE
    /\ pingInterval' = FALSE
    /\ Disconnect
    /\ UNCHANGED <<renderedRc, opened>>
    /\ lastSend' = NoSend
    /\ UNCHANGED onOpenCalls
    /\ UNCHANGED nonWsVars

\* connect() called through the hook's return value.
UserConnect ==
    /\ mounted
    /\ Connect(renderedRc, sock)
    /\ UNCHANGED <<reconnectTimeoutRef, mountTimerPending, pingInterval>>
    /\ lastSend' = NoSend
    /\ UNCHANGED onOpenCalls
    /\ UNCHANGED nonWsVars

\* disconnect() called through the hook's return value.
UserDisconnect ==
    /\ mounted
    /\ Disconnect
    /\ UNCHANGED <<mountTimerPending, renderedRc, mounted, opened, pingInterval>>
    /\ lastSend' = NoSend
    /\ UNCHANGED onOpenCalls
    /\ UNCHANGED nonWsVars

\* The server accepts the connection of socket s: onopen.
SocketOpen(s) ==
    /\ sock[s].st = "CONNECTING"
    /\ isConnected' = TRUE
    /\ connectionState' = "connected"
    /\ reconnectCount' = 0
    /\ sock' = SendSubscribe([sock EXCEPT ![s].st = "OPEN", ![s].est = TRUE], wsRef)
    /\ dirty' = (dirty \/ ~isConnected \/ connectionState # "connected" \/ reconnectCount # 0)
    /\ UNCHANGED <<wsRef, reconnectTimeoutRef, mountTimerPending, renderedRc, mounted,
                   opened, afterDisconnect, pingInterval>>
    /\ lastSend' = NoSend
    /\ onOpenCalls' = OnOpenCalls([sock EXCEPT ![s].st = "OPEN"], wsRef)
    /\ UNCHANGED nonWsVars

\* The server starts the closing handshake on the open socket s: the browser sets its
\* readyState to CLOSING; the close event follows when the connection is closed.
SocketClosing(s) ==
    /\ sock[s].st = "OPEN"
    /\ sock' = [sock EXCEPT ![s].st = "CLOSING"]
    /\ UNCHANGED <<isConnected, connectionState, reconnectCount, wsRef, reconnectTimeoutRef,
                   mountTimerPending, renderedRc, dirty, mounted, opened, afterDisconnect,
                   pingInterval>>
    /\ lastSend' = NoSend
    /\ UNCHANGED onOpenCalls
    /\ UNCHANGED nonWsVars

\* The 30 s interval of the ping effect fires: ping().
PingIntervalFire ==
    /\ pingInterval
    /\ lastSend' = SendMessage("ping", sock, wsRef)
    /\ UNCHANGED onOpenCalls
    /\ UNCHANGED nonSendVars

\* The host calls ping() or sendMessage() of the hook's return value (subscribe and
\* unsubscribe are calls of sendMessage).
SendVia == {"ping", "sendMessage"}

UserSend(via) ==
    /\ mounted
    /\ lastSend' = SendMessage(via, sock, wsRef)
    /\ UNCHANGED onOpenCalls
    /\ UNCHANGED nonSendVars

\* The close codes the browser can report for socket s: a connection that was
\* never established ends with 1006.
PossibleCodes(s) == IF sock[s].est THEN CloseCodes ELSE {ABNORMAL_CLOSURE}

\* onclose decides on the reconnectCount of its closure.
ShouldReconnect(code, rc) == code # NORMAL_CLOSURE /\ rc < maxReconnectAttempts

\* The close event of socket s is delivered with the given code: onclose.
SocketClose(s, code) ==
    /\ sock[s].st \in {"CONNECTING", "OPEN", "CLOSING"}
    /\ code \in PossibleCodes(s)
    /\ isConnected' = FALSE
    /\ IF ShouldReconnect(code, sock[s].rc)
       THEN /\ connectionState' = "disconnected"
            /\ reconnectCount' = Min(reconnectCount + 1, MaxCount)
            /\ reconnectTimeoutRef' = s
            /\ sock' = Collect([sock EXCEPT ![s].st = "CLOSED", ![s].tm = "pending"], wsRef)
       ELSE /\ connectionState' = IF sock[s].rc >= maxReconnectAttempts
                                  THEN "error" ELSE "disconnected"
            /\ reconnectCount' = reconnectCount
            /\ reconnectTimeoutRef' = reconnectTimeoutRef
            /\ sock' = Collect([sock EXCEPT ![s].st = "CLOSED"], wsRef)
    /\ dirty' = (dirty \/ isConnected \/ connectionState' # connectionState
                       \/ reconnectCount' # reconnectCount)
    /\ UNCHANGED <<wsRef, mountTimerPending, renderedRc, mounted, opened, afterDisconnect,
                   pingInterval>>
    /\ lastSend' = NoSend
    /\ UNCHANGED onOpenCalls
    /\ UNCHANGED nonWsVars

InitHook ==
    /\ isConnected = FALSE
    /\ connectionState = "disconnected"
    /\ reconnectCount = 0
    /\ wsRef = 0
    /\ reconnectTimeoutRef = 0
    /\ sock = [s \in Slots |-> NoSocket]
    /\ mountTimerPending = TRUE
    /\ renderedRc = 0
    /\ dirty = FALSE
    /\ mounted = TRUE
    /\ opened = 0
    /\ afterDisconnect = FALSE
    /\ pingInterval = FALSE
    /\ lastSend = NoSend
    /\ onOpenCalls = <<>>

(***************************************************************************)
(* App, OnboardingPage and OnboardingChat                                  *)
(***************************************************************************)

\* What App renders.
View ==
    IF appIsLoading THEN "loading"
    ELSE IF showOnboarding THEN "onboarding"
    ELSE "dashboard"

\* How onboardingApi.getPreferences() can end: the stored preferences, null, or
\* a rejected promise.
GetPreferencesResults == {IF serverPrefs THEN "prefs" ELSE "none", "error"}

\* Faulty variant of ShowOnboardingAfterCheck: the catch branch skips the onboarding.
ShowOnboardingAfterCheck_ErrorSkips(r, cur) ==
    IF r = "prefs" THEN FALSE
    ELSE IF r = "error" THEN FALSE
    ELSE cur

\* showOnboarding after checkOnboardingStatus got result r.
ShowOnboardingAfterCheck(r, cur) ==
    IF r = "prefs" THEN FALSE
    ELSE IF r = "error" THEN TRUE
    ELSE cur

\* OnboardingPage mounts: initial state, and its effect starts the check.
MountPage ==
    /\ opIsLoading' = TRUE
    /\ opShowChat' = FALSE
    /\ opExisting' = FALSE
    /\ opCheckPending' = TRUE
    /\ chatExtracted' = FALSE

\* OnboardingPage is not rendered: its state is gone.
NoPage ==
    /\ opIsLoading' = FALSE
    /\ opShowChat' = FALSE
    /\ opExisting' = FALSE
    /\ opCheckPending' = FALSE
    /\ chatExtracted' = FALSE

\* App.handleOnboardingComplete, the onComplete of OnboardingPage.
OnComplete ==
    /\ showOnboarding' = FALSE
    /\ onCompleteCalled' = TRUE
    /\ NoPage
    /\ savesInFlight' = 0
    /\ orphanSaves' = orphanSaves + savesInFlight
    /\ UNCHANGED <<appIsLoading, appCheck, serverPrefs, shownAgain>>

\* getPreferences of App.checkOnboardingStatus settles with result r.
AppCheckReturns(r) ==
    /\ appCheck = "pending"
    /\ r \in GetPreferencesResults
    /\ appCheck' = r
    /\ showOnboarding' = ShowOnboardingAfterCheck(r, showOnboarding)
    /\ appIsLoading' = FALSE
    /\ IF showOnboarding' THEN MountPage ELSE NoPage
    /\ UNCHANGED <<serverPrefs, savesInFlight, orphanSaves, completeTimers, onCompleteCalled, shownAgain>>
    /\ UNCHANGED nonAppVars

\* getPreferences of OnboardingPage.checkExistingPreferences settles.
PageCheckReturns(r) ==
    /\ opCheckPending
    /\ r \in GetPreferencesResults
    /\ opCheckPending' = FALSE
    /\ opExisting' = IF r = "error" THEN opExisting ELSE (r = "prefs")
    /\ opIsLoading' = FALSE
    /\ UNCHANGED <<appIsLoading, showOnboarding, appCheck, serverPrefs, opShowChat,
                   chatExtracted, savesInFlight, orphanSaves, completeTimers, onCompleteCalled,
                   shownAgain>>
    /\ UNCHANGED nonAppVars

PageButtonsShown == View = "onboarding" /\ ~opIsLoading /\ ~opShowChat

\* "Start Personalized Setup" / "Update Preferences".
StartOnboarding ==
    /\ PageButtonsShown
    /\ opShowChat' = TRUE
    /\ UNCHANGED <<appIsLoading, showOnboarding, appCheck, serverPrefs, opIsLoading,
                   opExisting, opCheckPending, chatExtracted, savesInFlight, orphanSaves,
                   completeTimers, onCompleteCalled, shownAgain>>
    /\ UNCHANGED nonAppVars

\* "Skip Setup for Now" (new user card).
SkipOnboarding ==
    /\ PageButtonsShown
    /\ ~opExisting
    /\ OnComplete
    /\ UNCHANGED completeTimers
    /\ UNCHANGED nonAppVars

\* "Start Trading" (existing user card).
StartTrading ==
    /\ PageButtonsShown
    /\ opExisting
    /\ OnComplete
    /\ UNCHANGED completeTimers
    /\ UNCHANGED nonAppVars

\* The chat's answer carries is_complete and the extracted preferences.
ChatExtracts ==
    /\ View = "onboarding"
    /\ opShowChat
    /\ ~chatExtracted
    /\ chatExtracted' = TRUE
    /\ UNCHANGED <<appIsLoading, showOnboarding, appCheck, serverPrefs, opIsLoading,
                   opShowChat, opExisting, opCheckPending, savesInFlight, orphanSaves,
                   completeTimers, onCompleteCalled, shownAgain>>
    /\ UNCHANGED nonAppVars

\* "Complete Setup" in the chat: handleCompleteOnboarding sends savePreferences.
ChatSaveStart ==
    /\ View = "onboarding"
    /\ opShowChat
    /\ chatExtracted
    /\ savesInFlight + orphanSaves < MaxTimers
    /\ savesInFlight' = savesInFlight + 1
    /\ UNCHANGED <<appIsLoading, showOnboarding, appCheck, serverPrefs, opIsLoading,
                   opShowChat, opExisting, opCheckPending, chatExtracted, orphanSaves,
                   completeTimers, onCompleteCalled, shownAgain>>
    /\ UNCHANGED nonAppVars

\* savePreferences settles.  When it succeeded the chat calls the page's
\* handleOnboardingComplete: setExistingPreferences, and the 2 s timeout.
ChatSaveReturns(saved) ==
    /\ savesInFlight > 0
    /\ savesInFlight' = savesInFlight - 1
    /\ IF saved
       THEN /\ completeTimers < MaxTimers
            /\ serverPrefs' = TRUE
            /\ opExisting' = TRUE
            /\ completeTimers' = completeTimers + 1
       ELSE UNCHANGED <<serverPrefs, opExisting, completeTimers>>
    /\ UNCHANGED <<appIsLoading, showOnboarding, appCheck, opIsLoading, opShowChat,
                   opCheckPending, chatExtracted, orphanSaves, onCompleteCalled, shownAgain>>
    /\ UNCHANGED nonAppVars

\* The same for a request whose chat and page are no longer mounted: the state
\* setter is without effect, the timeout is started all the same.
OrphanSaveReturns(saved) ==
    /\ orphanSaves > 0
    /\ orphanSaves' = orphanSaves - 1
    /\ IF saved
       THEN /\ completeTimers < MaxTimers
            /\ serverPrefs' = TRUE
            /\ completeTimers' = completeTimers + 1
       ELSE UNCHANGED <<serverPrefs, completeTimers>>
    /\ UNCHANGED <<appIsLoading, showOnboarding, appCheck, opIsLoading, opShowChat,
                   opExisting, opCheckPending, chatExtracted, savesInFlight,
                   onCompleteCalled, shownAgain>>
    /\ UNCHANGED nonAppVars

\* A 2 s timeout of handleOnboardingComplete fires.
CompleteTimerFire ==
    /\ completeTimers > 0
    /\ completeTimers' = completeTimers - 1
    /\ OnComplete
    /\ UNCHANGED nonAppVars

\* "Setup Preferences" in the dashboard header: App.handleShowOnboarding.
ShowOnboardingClick ==
    /\ View = "dashboard"
    /\ showOnboarding' = TRUE
    /\ shownAgain' = TRUE
    /\ MountPage
    /\ UNCHANGED <<appIsLoading, appCheck, serverPrefs, savesInFlight, orphanSaves, completeTimers,
                   onCompleteCalled>>
    /\ UNCHANGED nonAppVars

InitApp ==
    /\ appIsLoading = TRUE
    /\ showOnboarding = TRUE
    /\ appCheck = "pending"
    /\ serverPrefs \in BOOLEAN
    /\ opIsLoading = FALSE
    /\ opShowChat = FALSE
    /\ opExisting = FALSE
    /\ opCheckPending = FALSE
    /\ chatExtracted = FALSE
    /\ savesInFlight = 0
    /\ orphanSaves = 0
    /\ completeTimers = 0
    /\ onCompleteCalled = FALSE
    /\ shownAgain = FALSE

NextApp ==
    \/ \E r \in {"prefs", "none", "error"} : AppCheckReturns(r)
    \/ \E r \in {"prefs", "none", "error"} : PageCheckReturns(r)
    \/ StartOnboarding
    \/ SkipOnboarding
    \/ StartTrading
    \/ ChatExtracts
    \/ ChatSaveStart
    \/ \E saved \in BOOLEAN : ChatSaveReturns(saved)
    \/ \E saved \in BOOLEAN : OrphanSaveReturns(saved)
    \/ CompleteTimerFire
    \/ ShowOnboardingClick

(***************************************************************************)
(* TradingDashboard (analyzeStock, executeTrade) and StockAnalysis         *)
(*                                                                         *)
(* The search box holds one of SearchInputs (already trimmed): nothing, a  *)
(* name the back end resolves, a name it does not.  StockAnalysis is       *)
(* mounted exactly while currentAnalysis is not null; its state does not   *)
(* exist otherwise and is kept at the initial values.                      *)
(***************************************************************************)
SearchInputs == {"", "AAPL", "ZZZZ"}

SearchModes == {"symbol", "company"}

Quantities == 0..MaxQuantity

NoAnalysis == [shown |-> FALSE, action |-> "hold", quantity |-> 0]

\* what tradingApi.getStock / tradingApi.analyzeStock can deliver for the resolved symbol
Decisions ==
    { [shown |-> TRUE, action |-> a, quantity |-> q] : a \in {"buy", "sell"}, q \in {0, 1} }
    \cup { [shown |-> TRUE, action |-> "hold", quantity |-> 0] }

NoValidation == [set |-> FALSE, valid |-> FALSE, quantity |-> 0]

NoCall == [pc |-> "idle", input |-> "", mode |-> "symbol", fetched |-> FALSE]

NoReject == [seen |-> FALSE, analysisNull |-> TRUE, errorSet |-> TRUE, loading |-> FALSE,
             fetched |-> FALSE]

\* the answers companySearchApi.resolveSymbol can give for an input
Resolutions(input, mode) ==
    IF input = "AAPL"
    THEN {[resolved |-> TRUE, symbol |-> "AAPL"]}
    ELSE {[resolved |-> FALSE, symbol |-> ""]}
         \cup (IF mode = "company" THEN {[resolved |-> TRUE, symbol |-> ""]} ELSE {})

\* analyzeStock: the tests on the resolution that let the invocation go on
ResolutionAccepted(mode, resolution) ==
    IF mode = "company"
    THEN resolution.resolved /\ resolution.symbol # ""
    ELSE resolution.resolved

FreeCall == CHOOSE i \in 1..MaxCalls : calls[i].pc = "idle" /\ \A j \in 1..MaxCalls : calls[j].pc = "idle" => i <= j

\* the validateTrade effect of StockAnalysis (lines 47-51) runs validateTrade (lines 24-44) up
\* to its await: a request for quantity q becomes the latest one in flight
StartValidation(q) ==
    /\ validationLoading' = TRUE
    /\ validationError' = FALSE
    /\ validateReqs' = {[r EXCEPT !.latest = FALSE] : r \in validateReqs}
                          \cup {[quantity |-> q, latest |-> TRUE]}
    /\ latestOutcome' = "inflight"

\* StockAnalysis mounts with the decision d: initial state, then the effect
MountStockAnalysis(d) ==
    /\ customQuantity' = d.quantity
    /\ validation' = NoValidation
    /\ IF d.action # "hold" /\ d.quantity > 0
       THEN /\ validationLoading' = TRUE
            /\ validateReqs' = {[quantity |-> d.quantity, latest |-> TRUE]}
            /\ latestOutcome' = "inflight"
       ELSE /\ validationLoading' = FALSE
            /\ validateReqs' = {}
            /\ latestOutcome' = "none"
    /\ validationError' = FALSE

\* StockAnalysis unmounts: responses still in flight find no component
UnmountStockAnalysis ==
    /\ customQuantity' = 0
    /\ validation' = NoValidation
    /\ validationLoading' = FALSE
    /\ validationError' = FALSE
    /\ validateReqs' = {}
    /\ latestOutcome' = "none"

saVars == <<customQuantity, validation, validationLoading, validationError, validateReqs,
            latestOutcome>>

\* setCurrentAnalysis(a) and the render that follows
SetCurrentAnalysis(a) ==
    /\ currentAnalysis' = a
    /\ IF ~a.shown
       THEN UnmountStockAnalysis
       ELSE IF ~currentAnalysis.shown
       THEN MountStockAnalysis(a)
       ELSE \* props of the mounted component change; customQuantity and validation stay
            IF a.action # currentAnalysis.action /\ a.action # "hold" /\ customQuantity > 0
                 /\ Cardinality(validateReqs) < MaxPending
            THEN /\ StartValidation(customQuantity)
                 /\ UNCHANGED <<customQuantity, validation>>
            ELSE UNCHANGED saVars

\* loadInitialData (mount effect) ends
InitialLoadReturns(ok) ==
    /\ initialLoad
    /\ initialLoad' = FALSE
    /\ loading' = FALSE
    /\ error' = IF ok THEN error ELSE "load"
    /\ UNCHANGED <<searchSymbol, searchMode, currentAnalysis, calls, saVars, execPending,
                   execAfter, lastOrder, rejectEnd>>
    /\ UNCHANGED nonDashVars

\* onChange of the search box
SetSearchSymbol(v) ==
    /\ v # searchSymbol
    /\ searchSymbol' = v
    /\ IF currentAnalysis.shown
       THEN SetCurrentAnalysis(NoAnalysis) /\ error' = "null"
       ELSE UNCHANGED <<currentAnalysis, saVars, error>>
    /\ UNCHANGED <<loading, searchMode, initialLoad, calls, execPending, execAfter, lastOrder, rejectEnd>>
    /\ UNCHANGED nonDashVars

\* the Stock Symbol / Company Name buttons
SetSearchMode(m) ==
    /\ m # searchMode
    /\ searchMode' = m
    /\ UNCHANGED <<loading, error, searchSymbol, currentAnalysis, initialLoad, calls, saVars,
                   execPending, execAfter, lastOrder, rejectEnd>>
    /\ UNCHANGED nonDashVars

\* analyzeStock up to its first await
AnalyzeStock ==
    /\ searchSymbol # ""
    /\ \E i \in 1..MaxCalls : calls[i].pc = "idle"
    /\ loading' = TRUE
    /\ error' = "null"
    /\ SetCurrentAnalysis(NoAnalysis)
    /\ calls' = [calls EXCEPT ![FreeCall] =
                    [pc |-> "resolving", input |-> searchSymbol, mode |-> searchMode,
                     fetched |-> FALSE]]
    /\ UNCHANGED <<searchSymbol, searchMode, initialLoad, execPending, execAfter, lastOrder, rejectEnd>>
    /\ UNCHANGED nonDashVars

\* the Analyze button is disabled while loading
AnalyzeButton == ~loading /\ AnalyzeStock

\* onKeyPress of the search box: Enter calls analyzeStock whatever loading is
Keys == {"Enter", "a"}

KeyPress(key) == key = "Enter" /\ AnalyzeStock

\* the await of companySearchApi.resolveSymbol ends: failed is a rejected promise, otherwise
\* the resolution is tested; a throw runs catch and finally in the same step
ResolveReturns(i, failed, resolution) ==
    /\ calls[i].pc = "resolving"
    /\ ~failed => resolution \in Resolutions(calls[i].input, calls[i].mode)
    /\ IF ~failed /\ ResolutionAccepted(calls[i].mode, resolution)
       THEN /\ calls' = [calls EXCEPT ![i].pc = "fetching", ![i].fetched = TRUE]
            /\ UNCHANGED <<loading, error, rejectEnd>>
       ELSE /\ calls' = [calls EXCEPT ![i] = NoCall]
            /\ error' = "analyze"
            /\ loading' = FALSE
            /\ rejectEnd' = IF failed THEN rejectEnd
                            ELSE [seen |-> TRUE, analysisNull |-> ~currentAnalysis.shown,
                                  errorSet |-> error' # "null", loading |-> loading',
                                  fetched |-> calls[i].fetched]
    /\ UNCHANGED <<searchSymbol, searchMode, currentAnalysis, initialLoad, saVars, execPending,
                   execAfter, lastOrder>>
    /\ UNCHANGED nonDashVars

\* the await of Promise.all([getStock, analyzeStock]) ends
StockReturns(i, failed, d) ==
    /\ calls[i].pc = "fetching"
    /\ calls' = [calls EXCEPT ![i] = NoCall]
    /\ loading' = FALSE
    /\ IF failed
       THEN /\ error' = "analyze"
            /\ UNCHANGED <<currentAnalysis, saVars>>
       ELSE /\ SetCurrentAnalysis(d)
            /\ UNCHANGED error
    /\ UNCHANGED <<searchSymbol, searchMode, initialLoad, execPending, execAfter, lastOrder, rejectEnd>>
    /\ UNCHANGED nonDashVars

\* handleQuantityChange (or a Use Max / Use Available button) and the effect on customQuantity
SetQuantity(q) ==
    /\ currentAnalysis.shown /\ currentAnalysis.action # "hold"
    /\ q # customQuantity
    /\ customQuantity' = q
    /\ IF q > 0
       THEN /\ Cardinality(validateReqs) < MaxPending
            /\ StartValidation(q)
            /\ UNCHANGED validation
       ELSE UNCHANGED <<validation, validationLoading, validationError, validateReqs,
                        latestOutcome>>
    /\ UNCHANGED <<loading, error, searchSymbol, searchMode, currentAnalysis, initialLoad, calls,
                   execPending, execAfter, lastOrder, rejectEnd>>
    /\ UNCHANGED nonDashVars

\* the await of tradingApi.validateTrade ends for the request r: outcome is "valid" or
\* "invalid" (a response) or "failed" (the promise rejected)
ValidateReturns(r, outcome) ==
    /\ r \in validateReqs
    /\ validateReqs' = validateReqs \ {r}
    /\ IF outcome = "failed"
       THEN /\ validationError' = TRUE
            /\ UNCHANGED validation
       ELSE /\ validation' = [set |-> TRUE, valid |-> (outcome = "valid"),
                              quantity |-> r.quantity]
            /\ UNCHANGED validationError
    /\ validationLoading' = FALSE
    /\ latestOutcome' = IF r.latest THEN outcome ELSE latestOutcome
    /\ UNCHANGED customQuantity
    /\ UNCHANGED <<loading, error, searchSymbol, searchMode, currentAnalysis, initialLoad, calls,
                   execPending, execAfter, lastOrder, rejectEnd>>
    /\ UNCHANGED nonDashVars

NoOrder == [submitted |-> FALSE, quantity |-> 0, validatedFor |-> 0]

\* handleExecuteTrade: the order carries customQuantity; validatedFor is the
\* quantity of the request whose response is held in validation.
SubmittedOrder(q, v) == [submitted |-> TRUE, quantity |-> q, validatedFor |-> v.quantity]

\* the Execute button is enabled
ExecuteEnabled ==
    /\ currentAnalysis.shown /\ currentAnalysis.action # "hold"
    /\ ~validationLoading
    /\ validation.set /\ validation.valid

\* handleExecuteTrade, then TradingDashboard.executeTrade up to its await
HandleExecuteTrade ==
    /\ ExecuteEnabled
    /\ validation.set /\ validation.valid
    /\ currentAnalysis.action # "hold"
    /\ execPending < MaxExec
    /\ execPending' = execPending + 1
    /\ execAfter' = latestOutcome
    /\ lastOrder' = SubmittedOrder(customQuantity, validation)
    /\ UNCHANGED <<loading, error, searchSymbol, searchMode, currentAnalysis, initialLoad, calls,
                   saVars, rejectEnd>>
    /\ UNCHANGED nonDashVars

\* the awaits of executeTrade end: after a success refreshPortfolio runs (it catches its own
\* failure) and setError(null) follows; a failed execute sets the banner
ExecuteReturns(ok) ==
    /\ execPending > 0
    /\ execPending' = execPending - 1
    /\ error' = IF ok THEN "null" ELSE "trade"
    /\ UNCHANGED <<loading, searchSymbol, searchMode, currentAnalysis, initialLoad, calls,
                   saVars, execAfter, lastOrder, rejectEnd>>
    /\ UNCHANGED nonDashVars

InitDash ==
    /\ loading = TRUE
    /\ initialLoad = TRUE
    /\ error = "null"
    /\ searchSymbol = ""
    /\ searchMode = "symbol"
    /\ currentAnalysis = NoAnalysis
    /\ calls = [i \in 1..MaxCalls |-> NoCall]
    /\ customQuantity = 0
    /\ validation = NoValidation
    /\ validationLoading = FALSE
    /\ validationError = FALSE
    /\ validateReqs = {}
    /\ latestOutcome = "none"
    /\ execPending = 0
    /\ execAfter = "noexec"
    /\ lastOrder = NoOrder
    /\ rejectEnd = NoReject

AllResolutions == [resolved : BOOLEAN, symbol : {"", "AAPL"}]

NextDash ==
    \/ \E ok \in BOOLEAN : InitialLoadReturns(ok)
    \/ \E v \in SearchInputs : SetSearchSymbol(v)
    \/ \E m \in SearchModes : SetSearchMode(m)
    \/ AnalyzeButton
    \/ \E key \in Keys : KeyPress(key)
    \/ \E i \in 1..MaxCalls, failed \in BOOLEAN, r \in AllResolutions : ResolveReturns(i, failed, r)
    \/ \E i \in 1..MaxCalls, failed \in BOOLEAN, d \in Decisions : StockReturns(i, failed, d)

\* StockAnalysis seen from inside: what TradingDashboard does to it is that it shows an
\* analysis (setCurrentAnalysis of analyzeStock) or clears it (analyzeStock, onChange)
ParentShows(d) ==
    /\ SetCurrentAnalysis(d)
    /\ UNCHANGED <<loading, error, searchSymbol, searchMode, initialLoad, calls, execPending,
                   execAfter, lastOrder, rejectEnd>>
    /\ UNCHANGED nonDashVars

ParentClears ==
    /\ currentAnalysis.shown
    /\ SetCurrentAnalysis(NoAnalysis)
    /\ UNCHANGED <<loading, error, searchSymbol, searchMode, initialLoad, calls, execPending,
                   execAfter, lastOrder, rejectEnd>>
    /\ UNCHANGED nonDashVars

NextSA ==
    \/ \E d \in Decisions : ParentShows(d)
    \/ ParentClears
    \/ \E q \in Quantities : SetQuantity(q)
    \/ \E q \in Quantities, l \in BOOLEAN, o \in {"valid", "invalid", "failed"} :
            ValidateReturns([quantity |-> q, latest |-> l], o)
    \/ HandleExecuteTrade
    \/ \E ok \in BOOLEAN : ExecuteReturns(ok)

(***************************************************************************)
(* SymbolManager and the trading engine behind it                          *)
(*                                                                         *)
(* serverSymbols and engineRunning are the state of the back end; the      *)
(* engine is started and stopped from the Engine Control tab               *)
(* (EnhancedTradingControl.startEngine / stopEngine) or by another client. *)
(***************************************************************************)
KnownSymbols == {"AAPL", "MSFT", "SPY"}

\* texts typed into the symbol field
TypedTexts == {"", " ", "aapl", "MSFT ", "zzzz"}

\* String.prototype.toUpperCase on the texts of the model
ToUpperCase(s) ==
    CASE s = "aapl" -> "AAPL"
      [] s = "zzzz" -> "ZZZZ"
      [] OTHER -> s

\* String.prototype.trim on the texts of the model
Trim(s) ==
    CASE s = " " -> ""
      [] s = "MSFT " -> "MSFT"
      [] OTHER -> s

\* the Bulk Actions presets, cut down to KnownSymbols
Presets == {{"AAPL", "MSFT"}, {"SPY"}}

NoOp == [pc |-> "idle", symbol |-> ""]

NoAdd == [kind |-> "none", requested |-> FALSE, symbolsSame |-> TRUE, errorSet |-> FALSE,
          errorSame |-> TRUE, loading |-> FALSE, inList |-> FALSE, valid |-> FALSE]

\* addSymbol: symbols.includes(symbolToAdd) (faulty variant: the duplicate test never fires)
AlreadyInList_Never(list, symbol) ==
    FALSE

AlreadyInList(list, symbol) ==
    symbol \in list

\* the input field and the buttons next to it are disabled
ControlsDisabled == isEngineRunning \/ smLoading

\* a request that modifies the symbols goes out: remember whether the engine was running
IssueModification ==
    modWhileRunning' = (modWhileRunning \/ engineRunning)

\* loadSymbols (mount effect) ends
LoadSymbolsReturns(ok) ==
    /\ smLoadPending
    /\ smLoadPending' = FALSE
    /\ IF ok
       THEN symbols' = serverSymbols /\ UNCHANGED smError
       ELSE smError' = TRUE /\ UNCHANGED symbols
    /\ UNCHANGED <<newSymbol, smLoading, smSuccess, isEngineRunning, serverSymbols,
                   engineRunning, smStatusPending, smOp, lastAdd, modWhileRunning>>
    /\ UNCHANGED nonSmVars

\* checkEngineStatus (mount effect) ends; a failure is only logged
CheckEngineStatusReturns(ok) ==
    /\ smStatusPending
    /\ smStatusPending' = FALSE
    /\ isEngineRunning' = IF ok THEN engineRunning ELSE isEngineRunning
    /\ UNCHANGED <<symbols, newSymbol, smLoading, smError, smSuccess, serverSymbols,
                   engineRunning, smLoadPending, smOp, lastAdd, modWhileRunning>>
    /\ UNCHANGED nonSmVars

\* the back end starts or stops the engine
EngineStart ==
    /\ ~engineRunning
    /\ engineRunning' = TRUE
    /\ UNCHANGED <<symbols, newSymbol, smLoading, smError, smSuccess, isEngineRunning,
                   serverSymbols, smLoadPending, smStatusPending, smOp, lastAdd,
                   modWhileRunning>>
    /\ UNCHANGED nonSmVars

EngineStop ==
    /\ engineRunning
    /\ engineRunning' = FALSE
    /\ UNCHANGED <<symbols, newSymbol, smLoading, smError, smSuccess, isEngineRunning,
                   serverSymbols, smLoadPending, smStatusPending, smOp, lastAdd,
                   modWhileRunning>>
    /\ UNCHANGED nonSmVars

\* onChange of the symbol field
TypeSymbol(t) ==
    /\ ~ControlsDisabled
    /\ ToUpperCase(t) # newSymbol
    /\ newSymbol' = ToUpperCase(t)
    /\ UNCHANGED <<symbols, smLoading, smError, smSuccess, isEngineRunning, serverSymbols,
                   engineRunning, smLoadPending, smStatusPending, smOp, lastAdd,
                   modWhileRunning>>
    /\ UNCHANGED nonSmVars

\* addPopularSymbol (the button is disabled for a symbol of the list)
AddPopularSymbol(s) ==
    /\ ~isEngineRunning /\ s \notin symbols
    /\ s # newSymbol
    /\ newSymbol' = s
    /\ UNCHANGED <<symbols, smLoading, smError, smSuccess, isEngineRunning, serverSymbols,
                   engineRunning, smLoadPending, smStatusPending, smOp, lastAdd,
                   modWhileRunning>>
    /\ UNCHANGED nonSmVars

\* addSymbol up to its first await (or its early return)
AddSymbol ==
    /\ smOp.pc = "idle"
    /\ LET symbolToAdd == ToUpperCase(Trim(newSymbol)) IN
       IF Trim(newSymbol) = ""
       THEN /\ lastAdd' = [NoAdd EXCEPT !.kind = "empty", !.errorSet = smError,
                                        !.loading = smLoading]
            /\ UNCHANGED <<smLoading, smError, smSuccess, smOp>>
       ELSE IF AlreadyInList(symbols, symbolToAdd)
       THEN /\ smError' = TRUE
            /\ lastAdd' = [NoAdd EXCEPT !.kind = "duplicate", !.errorSet = smError',
                                        !.errorSame = (smError' = smError),
                                        !.loading = smLoading]
            /\ UNCHANGED <<smLoading, smSuccess, smOp>>
       ELSE /\ smLoading' = TRUE
            /\ smError' = FALSE
            /\ smSuccess' = FALSE
            /\ smOp' = [pc |-> "validating", symbol |-> symbolToAdd]
            /\ lastAdd' = [NoAdd EXCEPT !.kind = "started",
                                        !.inList = (symbolToAdd \in symbols)]
    /\ UNCHANGED <<symbols, newSymbol, isEngineRunning, serverSymbols, engineRunning,
                   smLoadPending, smStatusPending, modWhileRunning>>
    /\ UNCHANGED nonSmVars

\* the Add Symbol button
AddButton == ~ControlsDisabled /\ Trim(newSymbol) # "" /\ AddSymbol

\* onKeyPress of the symbol field
AddKeyPress(key) == ~ControlsDisabled /\ key = "Enter" /\ AddSymbol

\* the await of validateSymbol ends: isValid is whether tradingApi.getStock succeeded; the
\* add request goes out in the same step if it did
ValidateSymbolReturns(isValid) ==
    /\ smOp.pc = "validating"
    /\ isValid => smOp.symbol \in KnownSymbols
    /\ IF ~isValid
       THEN /\ smError' = TRUE
            /\ smLoading' = FALSE
            /\ smOp' = NoOp
            /\ lastAdd' = [lastAdd EXCEPT !.kind = "invalid", !.errorSet = smError',
                                          !.errorSame = (smError' = smError),
                                          !.loading = smLoading']
            /\ UNCHANGED modWhileRunning
       ELSE /\ smOp' = [smOp EXCEPT !.pc = "adding"]
            /\ IssueModification
            /\ lastAdd' = [lastAdd EXCEPT !.kind = "sent", !.requested = TRUE,
                                          !.valid = isValid]
            /\ UNCHANGED <<smError, smLoading>>
    /\ UNCHANGED <<symbols, newSymbol, smSuccess, isEngineRunning, serverSymbols, engineRunning,
                   smLoadPending, smStatusPending>>
    /\ UNCHANGED nonSmVars

\* the POST symbols/add request ends
AddReturns(ok) ==
    /\ smOp.pc = "adding"
    /\ smOp' = NoOp
    /\ smLoading' = FALSE
    /\ IF ok
       THEN /\ serverSymbols' = serverSymbols \cup {smOp.symbol}
            /\ symbols' = serverSymbols'
            /\ newSymbol' = ""
            /\ smSuccess' = TRUE
            /\ UNCHANGED smError
       ELSE /\ smError' = TRUE
            /\ UNCHANGED <<serverSymbols, symbols, newSymbol, smSuccess>>
    /\ UNCHANGED <<isEngineRunning, engineRunning, smLoadPending, smStatusPending, lastAdd,
                   modWhileRunning>>
    /\ UNCHANGED nonSmVars

\* removeSymbol or updateAllSymbols up to the await of its request
StartModification(op) ==
    /\ smOp.pc = "idle"
    /\ smLoading' = TRUE
    /\ smError' = FALSE
    /\ smSuccess' = FALSE
    /\ smOp' = op
    /\ IssueModification
    /\ UNCHANGED <<symbols, newSymbol, isEngineRunning, serverSymbols, engineRunning,
                   smLoadPending, smStatusPending, lastAdd>>
    /\ UNCHANGED nonSmVars

\* the remove button of a symbol's badge
RemoveSymbol(s) ==
    /\ s \in symbols
    /\ ~(ControlsDisabled \/ Cardinality(symbols) <= 1)
    /\ StartModification([pc |-> "removing", symbol |-> s])

\* a Bulk Actions button
UpdateAllSymbols(preset) ==
    /\ ~ControlsDisabled
    /\ StartModification([pc |-> "updating", symbol |-> IF "SPY" \in preset THEN "ETFs" ELSE "Tech"])

\* the DELETE or PUT request ends
ModificationReturns(ok) ==
    /\ smOp.pc \in {"removing", "updating"}
    /\ smOp' = NoOp
    /\ smLoading' = FALSE
    /\ IF ok
       THEN /\ serverSymbols' = CASE smOp.pc = "removing" -> serverSymbols \ {smOp.symbol}
                                  [] smOp.symbol = "ETFs" -> {"SPY"}
                                  [] OTHER -> {"AAPL", "MSFT"}
            /\ symbols' = serverSymbols'
            /\ smSuccess' = TRUE
            /\ UNCHANGED smError
       ELSE /\ smError' = TRUE
            /\ UNCHANGED <<serverSymbols, symbols, smSuccess>>
    /\ UNCHANGED <<newSymbol, isEngineRunning, engineRunning, smLoadPending, smStatusPending,
                   lastAdd, modWhileRunning>>
    /\ UNCHANGED nonSmVars

\* clearMessages (the X of a message)
ClearMessages ==
    /\ smError \/ smSuccess
    /\ smError' = FALSE
    /\ smSuccess' = FALSE
    /\ UNCHANGED <<symbols, newSymbol, smLoading, isEngineRunning, serverSymbols, engineRunning,
                   smLoadPending, smStatusPending, smOp, lastAdd, modWhileRunning>>
    /\ UNCHANGED nonSmVars

InitSM ==
    /\ symbols = {}
    /\ newSymbol = ""
    /\ smLoading = FALSE
    /\ smError = FALSE
    /\ smSuccess = FALSE
    /\ isEngineRunning = FALSE
    /\ serverSymbols = {"AAPL", "MSFT"}
    /\ engineRunning = FALSE
    /\ smLoadPending = TRUE
    /\ smStatusPending = TRUE
    /\ smOp = NoOp
    /\ lastAdd = NoAdd
    /\ modWhileRunning = FALSE

NextSM ==
    \/ \E ok \in BOOLEAN : LoadSymbolsReturns(ok)
    \/ \E ok \in BOOLEAN : CheckEngineStatusReturns(ok)
    \/ EngineStart
    \/ EngineStop
    \/ \E t \in TypedTexts : TypeSymbol(t)
    \/ \E s \in KnownSymbols : AddPopularSymbol(s)
    \/ AddButton
    \/ \E key \in Keys : AddKeyPress(key)
    \/ \E isValid \in BOOLEAN : ValidateSymbolReturns(isValid)
    \/ \E ok \in BOOLEAN : AddReturns(ok)
    \/ \E s \in KnownSymbols : RemoveSymbol(s)
    \/ \E preset \in Presets : UpdateAllSymbols(preset)
    \/ \E ok \in BOOLEAN : ModificationReturns(ok)
    \/ ClearMessages

(***************************************************************************)
(* The portfolio of the back end (trade validation and execution, the      *)
(* portfolio report) and the allocation card of PortfolioOverview.         *)
(*                                                                         *)
(* Money is counted in whole units.  A percentage is kept in tenths of a   *)
(* percent, which is what toFixed(1) prints.                               *)
(***************************************************************************)
Stocks == {"AAPL", "MSFT"}

Prices == 1..MaxPrice

TradeOrders == [symbol : Stocks, action : {"buy", "sell"}, quantity : 1..MaxShares]

\* sum of f[s] over the symbols of S
RECURSIVE SumOver(_, _)
SumOver(f, S) ==
    IF S = {} THEN 0
    ELSE LET s == CHOOSE x \in S : TRUE IN f[s] + SumOver(f, S \ {s})

\* the answer of the trade validation for an order at the current price (faulty variant: every
\* order is valid)
ValidateTrade_AlwaysValid(order, cash, held, price) ==
    [valid |-> TRUE,
     available_cash |-> cash,
     required_cash |-> order.quantity * price,
     max_affordable_shares |-> cash \div price,
     available_shares |-> held,
     requested_shares |-> order.quantity]

ValidateTrade(order, cash, held, price) ==
    [valid |-> IF order.action = "buy"
               THEN order.quantity * price <= cash
               ELSE order.quantity <= held,
     available_cash |-> cash,
     required_cash |-> order.quantity * price,
     max_affordable_shares |-> cash \div price,
     available_shares |-> held,
     requested_shares |-> order.quantity]

\* the portfolio report: each holding valued at the current price
ReportOf(cash, held, price) ==
    LET value == [s \in Stocks |-> held[s] * price[s]] IN
    [cash_balance |-> cash,
     total_value |-> cash + SumOver(value, Stocks),
     holdings |-> [s \in Stocks |-> [quantity |-> held[s],
                                     current_price |-> price[s],
                                     value |-> value[s]]]]

Report == ReportOf(cash_balance, holdings, prices)

\* a trade is executed: validated against the current state, then booked, and the front end
\* refreshes its portfolio (TradingDashboard.executeTrade, refreshPortfolio)
ExecuteTrade(order) ==
    LET price == prices[order.symbol]
        v == ValidateTrade(order, cash_balance, holdings[order.symbol], price)
        cost == order.quantity * price
    IN
    /\ order.action = "buy" => holdings[order.symbol] + order.quantity <= MaxShares
    /\ order.action = "sell" => cash_balance + cost <= MaxCash
    /\ IF v.valid
       THEN /\ cash_balance' = IF order.action = "buy" THEN cash_balance - cost
                               ELSE cash_balance + cost
            /\ holdings' = [holdings EXCEPT ![order.symbol] =
                               IF order.action = "buy" THEN @ + order.quantity
                               ELSE @ - order.quantity]
       ELSE UNCHANGED <<cash_balance, holdings>>
    /\ lastTrade' = [done |-> TRUE, order |-> order, price |-> price, ok |-> v.valid,
                     cashBefore |-> cash_balance, heldBefore |-> holdings[order.symbol]]
    /\ portfolio' = ReportOf(cash_balance', holdings', prices)
    /\ UNCHANGED prices
    /\ UNCHANGED nonPfVars

\* the market moves the price of a stock
PriceChange(s, p) ==
    /\ p # prices[s]
    /\ prices' = [prices EXCEPT ![s] = p]
    /\ UNCHANGED <<cash_balance, holdings, portfolio, lastTrade>>
    /\ UNCHANGED nonPfVars

\* portfolioApi.getPortfolio answers (refreshPortfolio, loadInitialData)
RefreshPortfolio ==
    /\ portfolio # Report
    /\ portfolio' = Report
    /\ UNCHANGED <<cash_balance, holdings, prices, lastTrade>>
    /\ UNCHANGED nonPfVars

\* PortfolioOverview: (part / total_value) * 100 as toFixed(1) prints it, in tenths of a
\* percent (faulty variant: the digits after the first decimal are cut off)
PercentageShown_Truncated(part, total) ==
    (1000 * part) \div total

PercentageShown(part, total) ==
    (2000 * part + total) \div (2 * total)

\* the allocation card is rendered
AllocationShown == \E s \in Stocks : portfolio.holdings[s].quantity > 0

\* the rows of the card: the reported holdings, and CASH if cash_balance > 0
AllocationRows ==
    {s \in Stocks : portfolio.holdings[s].quantity > 0}
        \cup (IF portfolio.cash_balance > 0 THEN {"CASH"} ELSE {})

RowShown(row) ==
    IF row = "CASH"
    THEN PercentageShown(portfolio.cash_balance, portfolio.total_value)
    ELSE PercentageShown(portfolio.holdings[row].value, portfolio.total_value)

ShownSum == SumOver([row \in AllocationRows |-> RowShown(row)], AllocationRows)

InitPf ==
    /\ cash_balance = InitialCash
    /\ holdings = [s \in Stocks |-> 0]
    /\ prices = [s \in Stocks |-> 1]
    /\ portfolio = Report
    /\ lastTrade = [done |-> FALSE, order |-> [symbol |-> "AAPL", action |-> "buy", quantity |-> 1],
                    price |-> 1, ok |-> FALSE, cashBefore |-> 0, heldBefore |-> 0]

NextPf ==
    \/ \E order \in TradeOrders : ExecuteTrade(order)
    \/ \E s \in Stocks, p \in Prices : PriceChange(s, p)
    \/ RefreshPortfolio

(***************************************************************************)
(* The response interceptor of the shared axios instance                   *)
(*                                                                         *)
(* A failed request reaches the interceptor as an AxiosError: its code,    *)
(* the response (status 0 stands for no response) with its body, and its   *)
(* message.  A body is described by its kind and, for an object, whether   *)
(* it has a detail field and what that field holds.                        *)
(***************************************************************************)
TIMEOUT_MESSAGE == "Request timeout - please try again"

NOT_FOUND_MESSAGE == "Market data not available for this symbol"

RATE_LIMIT_MESSAGE == "Rate limit exceeded - please wait before trying again"

UNEXPECTED_MESSAGE == "An unexpected error occurred"

ErrorCodes == {"ECONNABORTED", "ERR_BAD_RESPONSE", "ERR_NETWORK"}

\* 0: the error carries no response
Statuses == {0, 400, 404, 429, 500}

\* detail fields: two texts, the empty text, and a list of validation errors (not a string)
Details == {"Insufficient funds", "Symbol not found", "", "<list>"}

Bodies ==
    {[kind |-> k, hasDetail |-> FALSE, detail |-> ""] : k \in {"none", "null", "string", "array", "object"}}
        \cup {[kind |-> "object", hasDetail |-> TRUE, detail |-> d] : d \in Details}

ErrorMessages == {"", "Request failed with status code", "timeout of 120000ms exceeded"}

AxiosErrors ==
    {e \in [code : ErrorCodes, status : Statuses, data : Bodies, message : ErrorMessages] :
        e.status = 0 => e.data.kind = "none"}

\* new Error(x).message: String(x)
MessageOf(x) == IF x = "<list>" THEN "[object Object]" ELSE x

\* error.response?.data && typeof error.response.data === 'object' && 'detail' in data
BodyHasDetail(e) ==
    /\ e.status # 0
    /\ e.data.kind \in {"array", "object"}
    /\ e.data.hasDetail

\* the rejection handler: the message of the Error it throws (faulty variant: the detail of
\* the body is looked at before the status)
Interceptor_DetailFirst(e) ==
    IF e.code = "ECONNABORTED" THEN TIMEOUT_MESSAGE
    ELSE IF BodyHasDetail(e) THEN MessageOf(e.data.detail)
    ELSE IF e.status = 404 THEN NOT_FOUND_MESSAGE
    ELSE IF e.status = 429 THEN RATE_LIMIT_MESSAGE
    ELSE IF e.message # "" THEN e.message ELSE UNEXPECTED_MESSAGE

Interceptor(e) ==
    IF e.code = "ECONNABORTED" THEN TIMEOUT_MESSAGE
    ELSE IF e.status = 404 THEN NOT_FOUND_MESSAGE
    ELSE IF e.status = 429 THEN RATE_LIMIT_MESSAGE
    ELSE IF BodyHasDetail(e) THEN MessageOf(e.data.detail)
    ELSE IF e.message # "" THEN e.message ELSE UNEXPECTED_MESSAGE

\* a request fails with the error e and the interceptor rejects it
RequestFails(e) ==
    /\ axThrown # "<pending>"
    /\ axError' = e
    /\ axThrown' = "<pending>"
    /\ UNCHANGED nonAxVars

InterceptorRejects ==
    /\ axThrown = "<pending>"
    /\ axThrown' = Interceptor(axError)
    /\ UNCHANGED axError
    /\ UNCHANGED nonAxVars

\* no request has failed yet
NoError == [code |-> "", status |-> 0,
            data |-> [kind |-> "none", hasDetail |-> FALSE, detail |-> ""], message |-> ""]

InitAx ==
    /\ axError = NoError
    /\ axThrown = "<none>"

NextAx ==
    \/ \E e \in AxiosErrors : RequestFails(e)
    \/ InterceptorRejects

(***************************************************************************)
(* useTradingWebSocket.handleMessage                                       *)
(*                                                                         *)
(* An entry of aiDecisions or tradeExecutions is identified by its number  *)
(* of arrival on its topic (1 for the first one received).                 *)
(***************************************************************************)
\* the end index of prev.slice(0, 9)
SLICE_END == 9

MessageTypes == {"new_decision", "trade_executed", "status_change", "portfolio_updated", "other"}

EngineStates == {"running", "stopped"}

\* Array.prototype.slice(start, end) for 0 <= start <= end
Slice(seq, start, end) == SubSeq(seq, start + 1, Min(end, Len(seq)))

\* [item, ...prev.slice(0, 9)] (faulty variant: slice(0, 10))
PrependKeep_SliceTen(item, prev) ==
    <<item>> \o Slice(prev, 0, SLICE_END + 1)

PrependKeep(item, prev) ==
    <<item>> \o Slice(prev, 0, SLICE_END)

\* onmessage of the socket hands a parsed message to handleMessage
HandleMessage(topic, type, status) ==
    /\ (topic = "ai_decisions" /\ type = "new_decision") => decisionsReceived < MaxMessages
    /\ (topic = "trades" /\ type = "trade_executed") => tradesReceived < MaxMessages
    /\ IF topic = "ai_decisions" /\ type = "new_decision"
       THEN /\ decisionsReceived' = decisionsReceived + 1
            /\ aiDecisions' = PrependKeep(decisionsReceived', aiDecisions)
       ELSE UNCHANGED <<decisionsReceived, aiDecisions>>
    /\ IF topic = "trades" /\ type = "trade_executed"
       THEN /\ tradesReceived' = tradesReceived + 1
            /\ tradeExecutions' = PrependKeep(tradesReceived', tradeExecutions)
       ELSE UNCHANGED <<tradesReceived, tradeExecutions>>
    /\ engineStatus' = IF topic = "engine_status" /\ type = "status_change"
                       THEN status ELSE engineStatus
    /\ portfolioUpdates' = IF topic = "portfolio" /\ type = "portfolio_updated"
                           THEN TRUE ELSE portfolioUpdates
    /\ UNCHANGED nonMsgVars

InitMsg ==
    /\ aiDecisions = <<>>
    /\ tradeExecutions = <<>>
    /\ engineStatus = "null"
    /\ portfolioUpdates = FALSE
    /\ decisionsReceived = 0
    /\ tradesReceived = 0

NextMsg ==
    \E topic \in Topics, type \in MessageTypes, status \in EngineStates :
        HandleMessage(topic, type, status)

(***************************************************************************)
(* Specifications                                                          *)
(***************************************************************************)
Init == InitHook /\ InitApp /\ InitDash /\ InitSM /\ InitPf /\ InitAx /\ InitMsg

SpecApp == Init /\ [][NextApp]_vars

NextWS ==
    \/ MountTimerFire
    \/ \E s \in Slots : ReconnectTimerFire(s)
    \/ Render
    \/ HostRender
    \/ Unmount
    \/ UserConnect
    \/ UserDisconnect
    \/ \E s \in Slots : SocketOpen(s)
    \/ \E s \in Slots : SocketClosing(s)
    \/ \E s \in Slots, code \in CloseCodes : SocketClose(s, code)

SpecWS == Init /\ [][NextWS]_vars

\* The hook together with the calls of sendMessage.
NextWSSend ==
    \/ NextWS
    \/ PingIntervalFire
    \/ \E via \in SendVia : UserSend(via)

SpecWSSend == Init /\ [][NextWSSend]_vars

SpecDash == Init /\ [][NextDash]_vars

SpecSA == Init /\ [][NextSA]_vars

SpecSM == Init /\ [][NextSM]_vars

SpecPf == Init /\ [][NextPf]_vars

SpecAx == Init /\ [][NextAx]_vars

SpecMsg == Init /\ [][NextMsg]_vars

\* The hook in front of a server that never accepts a connection, left alone by
\* the user.  A queued render runs within the same tick of the event loop, the
\* timeouts are 3 s and 10 s long: a timeout fires only when no render is queued.
DueMountTimer == ~dirty /\ MountTimerFire

DueReconnectTimer(s) == ~dirty /\ ReconnectTimerFire(s)

ConnectionRefused(s) == SocketClose(s, ABNORMAL_CLOSURE)

NextWSDown ==
    \/ DueMountTimer
    \/ \E s \in Slots : DueReconnectTimer(s)
    \/ Render
    \/ \E s \in Slots : ConnectionRefused(s)

SpecWSFair ==
    /\ Init
    /\ [][NextWSDown]_vars
    /\ WF_vars(DueMountTimer)
    /\ WF_vars(Render)
    /\ \A s \in Slots : WF_vars(DueReconnectTimer(s))
    /\ \A s \in Slots : WF_vars(ConnectionRefused(s))

TypeOKWS ==
    /\ isConnected \in BOOLEAN
    /\ connectionState \in {"connecting", "connected", "disconnected", "error"}
    /\ reconnectCount \in 0..MaxCount
    /\ wsRef \in 0..MaxSockets
    /\ reconnectTimeoutRef \in 0..MaxSockets
    /\ opened \in 0..MaxOpened

(***************************************************************************)
(* Claims about the reconnect logic of useWebSocket                        *)
(***************************************************************************)

\* C1: in front of a server that never accepts (every attempt ends in an
\* abnormal close), the hook creates at most 1 + maxReconnectAttempts
\* WebSockets: the initial attempt and maxReconnectAttempts retries.
C1_BoundedReconnect == opened <= 1 + maxReconnectAttempts

NoReconnectPending == \A s \in Slots : sock[s].tm # "pending"

GaveUp == connectionState = "error" /\ ~isConnected /\ NoReconnectPending

\* C2: while the server stays unreachable the hook eventually gives up:
\* connectionState is 'error', isConnected is false and no reconnect timeout
\* is pending.
C2_EventuallyGivesUp == <>GaveUp

\* C8: from a call of disconnect() until the next call of connect(), no
\* reconnect timeout is pending and no socket of the hook is OPEN or CONNECTING.
C8_NoReconnectAfterDisconnect ==
    afterDisconnect => (NoReconnectPending /\ \A s \in Slots : ~IsLive(sock[s]))

(***************************************************************************)
(* Claims about App                                                        *)
(***************************************************************************)

\* C10: while the preferences check is pending App shows the loading screen;
\* the dashboard is shown only after the check ended, and then only if the
\* check found preferences or onComplete was called; after a check that threw
\* or found nothing the onboarding page is shown until onComplete is called;
\* after a check that found preferences the dashboard is shown (until the user
\* asks for the onboarding again).
C10_DashboardAfterCheck ==
    /\ appCheck = "pending" => View = "loading"
    /\ View = "dashboard" => (appCheck # "pending" /\ (appCheck = "prefs" \/ onCompleteCalled))
    /\ (appCheck \in {"none", "error"} /\ ~onCompleteCalled) => View = "onboarding"
    /\ (appCheck = "prefs" /\ ~shownAgain) => View = "dashboard"

\* The check threw, the onboarding was shown, and onComplete led to the dashboard.
C10_Witness == appCheck = "error" /\ onCompleteCalled /\ View = "dashboard"

\* C3: an execute request is issued only while the validateTrade request issued last
\* for the shown trade has answered valid = true; never with no validation response, after
\* a failed validation request, or after an answer valid = false.
C3_ValidatedBeforeExecute == execAfter \notin {"none", "invalid", "failed"}

\* C4: when analyzeStock rejects its input because resolveSymbol did not resolve it, the
\* invocation has called neither getStock nor analyzeStock, currentAnalysis is null, the
\* error banner is set and loading is false.
C4_InvalidSymbolRejected ==
    rejectEnd.seen =>
        /\ ~rejectEnd.fetched
        /\ rejectEnd.analysisNull
        /\ rejectEnd.errorSet
        /\ ~rejectEnd.loading

C9_NoModificationWhileRunning == ~modWhileRunning

\* C6: a trade is booked only if it is valid (a buy needs required_cash <= available_cash,
\* a sell requested_shares <= available_shares); an executed buy of q shares at price p lowers
\* the cash by q*p and raises the holding by q, an executed sell does the opposite, a rejected
\* trade changes neither; cash and every holding stay non-negative.
C6_TradeConsistent ==
    /\ cash_balance >= 0
    /\ \A s \in Stocks : holdings[s] >= 0
    /\ lastTrade.done =>
          LET o == lastTrade.order
              cost == o.quantity * lastTrade.price
          IN
          /\ lastTrade.ok <=> IF o.action = "buy" THEN cost <= lastTrade.cashBefore
                                                 ELSE o.quantity <= lastTrade.heldBefore
          /\ portfolio.cash_balance =
                CASE ~lastTrade.ok -> lastTrade.cashBefore
                  [] o.action = "buy" -> lastTrade.cashBefore - cost
                  [] OTHER -> lastTrade.cashBefore + cost
          /\ portfolio.holdings[o.symbol].quantity =
                CASE ~lastTrade.ok -> lastTrade.heldBefore
                  [] o.action = "buy" -> lastTrade.heldBefore + o.quantity
                  [] OTHER -> lastTrade.heldBefore - o.quantity

C6_Witness ==
    /\ lastTrade.done /\ lastTrade.ok /\ lastTrade.order.action = "sell"
    /\ cash_balance > InitialCash

\* the reported total is the cash plus the holdings valued at the reported prices
TotalValueIdentity ==
    /\ \A s \in Stocks : portfolio.holdings[s].value =
                              portfolio.holdings[s].quantity * portfolio.holdings[s].current_price
    /\ portfolio.total_value =
          portfolio.cash_balance
              + SumOver([s \in Stocks |-> portfolio.holdings[s].value], Stocks)

\* C7 (as stated): every reported portfolio satisfies the identity, and the percentages the
\* allocation card shows add up to 100.0 %.
C7_AllocationSumsTo100 ==
    /\ TotalValueIdentity
    /\ AllocationShown => ShownSum = 1000

\* C7 (amended): every reported portfolio satisfies the identity; the percentages shown are
\* each rounded to one decimal, so their sum is 100 % up to 0.05 % for each row shown.
C7_AllocationSumsTo100Rounded ==
    /\ TotalValueIdentity
    /\ AllocationShown =>
          /\ 2 * (ShownSum - 1000) <= Cardinality(AllocationRows)
          /\ 2 * (1000 - ShownSum) <= Cardinality(AllocationRows)

C7_Witness == AllocationShown /\ ShownSum # 1000 /\ Cardinality(AllocationRows) = 3

\* C11: the message of the Error a failed request is rejected with follows a fixed priority:
\* the timeout message for code ECONNABORTED; else the market-data message for status 404;
\* else the rate-limit message for status 429; else the detail field of an object body that
\* has one; else the error's own message, or the fallback text when that is empty.  A 404
\* or 429 response never surfaces its detail.
C11_ErrorMessagePriority ==
    axThrown \notin {"<none>", "<pending>"} =>
        LET e == axError
            object == e.status # 0 /\ e.data.kind = "object" /\ e.data.hasDetail
        IN
        /\ e.code = "ECONNABORTED" => axThrown = TIMEOUT_MESSAGE
        /\ (e.code # "ECONNABORTED" /\ e.status = 404) => axThrown = NOT_FOUND_MESSAGE
        /\ (e.code # "ECONNABORTED" /\ e.status = 429) => axThrown = RATE_LIMIT_MESSAGE
        /\ (e.code # "ECONNABORTED" /\ e.status \notin {404, 429} /\ object) =>
               axThrown = MessageOf(e.data.detail)
        /\ (e.code # "ECONNABORTED" /\ e.status \notin {404, 429} /\ ~object) =>
               axThrown = (IF e.message = "" THEN UNEXPECTED_MESSAGE ELSE e.message)

C11_Witness ==
    /\ axError.status = 404 /\ axError.code # "ECONNABORTED"
    /\ axError.data.hasDetail /\ axError.data.detail = "Symbol not found"
    /\ axThrown = NOT_FOUND_MESSAGE

\* the n entries received last on a topic, newest first, after received arrivals
LastReceived(received, n) == [i \in 1..Min(received, n) |-> received - i + 1]

\* C12: aiDecisions and tradeExecutions each hold at most 10 entries, the entry received
\* last is at index 0, and on overflow the oldest entry is the one dropped: each list is
\* the last 10 entries received, newest first.
C12_KeepsLastTen ==
    /\ Len(aiDecisions) <= 10 /\ Len(tradeExecutions) <= 10
    /\ decisionsReceived > 0 => aiDecisions[1] = decisionsReceived
    /\ tradesReceived > 0 => tradeExecutions[1] = tradesReceived
    /\ aiDecisions = LastReceived(decisionsReceived, 10)
    /\ tradeExecutions = LastReceived(tradesReceived, 10)

C12_Witness ==
    /\ decisionsReceived = 12 /\ Len(aiDecisions) = 10
    /\ aiDecisions[1] = 12 /\ aiDecisions[10] = 3
    /\ tradesReceived = 11 /\ tradeExecutions[10] = 2

\* C13: at most one socket created by the hook is OPEN or CONNECTING at any time.
C13_OneLiveSocket == Cardinality({s \in Slots : IsLive(sock[s])}) <= 1

\* a new socket is connecting while the one before it is still closing
C13_Witness ==
    \E s, t \in Slots : sock[s].st = "CLOSING" /\ sock[t].st = "CONNECTING" /\ wsRef = t

\* C14: sendMessage (and so subscribe, unsubscribe and ping) transmits and returns
\* true only when the readyState of the current socket is OPEN; with no socket or a
\* socket that is CONNECTING, CLOSING or CLOSED it sends nothing and returns false.
\* No subscribe of onopen goes to a socket that was never open either.
C14_SendsOnlyWhenOpen ==
    /\ lastSend.via # "none" =>
          /\ lastSend.sent = (lastSend.readyState = "OPEN")
          /\ lastSend.returned = lastSend.sent
    /\ \A s \in Slots : sock[s].subs > 0 => sock[s].est

\* the ping interval fired on a socket that is closing: nothing sent, false returned
C14_Witness ==
    /\ lastSend.via = "ping"
    /\ lastSend.readyState = "CLOSING"
    /\ ~lastSend.sent
    /\ ~lastSend.returned
    /\ pingInterval

\* a message sent on the open socket
C14_WitnessOpen == lastSend.via = "sendMessage" /\ lastSend.readyState = "OPEN" /\ lastSend.sent

\* socket s goes from CONNECTING to OPEN in this step
Opens(s) == sock[s].st = "CONNECTING" /\ sock'[s].st = "OPEN"

\* C15: whenever a socket opens (the first connection or a reconnect) the step
\* leaves reconnectCount at 0, the opened socket is the current one and carries
\* exactly one subscribe message, no other socket gets a message, and the
\* subscribe comes before onConnect.
C15_OpenResetsAndSubscribes ==
    [][\A s \in Slots : Opens(s) =>
          /\ reconnectCount' = 0
          /\ wsRef' = s
          /\ sock'[s].subs = 1
          /\ \A t \in Slots \ {s} : sock'[t].subs = sock[t].subs
          /\ onOpenCalls' = <<"subscribe", "onConnect">>]_vars

\* a socket created by a reconnect (its closure saw reconnectCount > 0) is open
C15_Witness ==
    /\ wsRef # 0
    /\ sock[wsRef].st = "OPEN"
    /\ sock[wsRef].rc > 0
    /\ sock[wsRef].subs = 1
    /\ reconnectCount = 0
    /\ opened >= 2
    /\ onOpenCalls = <<"subscribe", "onConnect">>

\* C16: isConnected is true exactly when connectionState is 'connected'; in
\* particular connectionState is never 'connecting' or 'error' while isConnected
\* is true.
C16_ConnectedIffState == isConnected <=> (connectionState = "connected")

\* C17: whenever StockAnalysis submits an order, the validation response it holds
\* was computed for the quantity that is submitted.
C17_ValidatedQuantitySubmitted ==
    lastOrder.submitted => lastOrder.quantity = lastOrder.validatedFor

====
